---- MODULE Spec2Model ----
(***************************************************************************)
(* Model of eget's install-log browser: the log store (src/log.rs), the    *)
(* selection engine (src/app.rs) and the key-event loop (src/main.rs).     *)
(* Text is modelled as sequences of one-character strings, so that the     *)
(* line splitting, field splitting, re-joining, lower-casing and timestamp *)
(* parsing of the code are computed, not assumed.                          *)
(***************************************************************************)
EXTENDS Naturals, Integers, Sequences, FiniteSets, TLC

VARIABLES all_entries, filtered_entries, selected, input_mode, filter_input,
          logfile, fs, pc, disk_ops, fault_age, last

vars == <<all_entries, filtered_entries, selected, input_mode, filter_input,
          logfile, fs, pc, disk_ops, fault_age, last>>

----------------------------------------------------------------------------
(* Bounds of the model *)

\* at most this many lines in an initial log / before eget appends a line
MaxLines == 3
\* at most this many characters typed into the filter
MaxFilterLen == 2
\* at most this many handlers that change the disk (a delete that removes
\* the file, an update that installs) in one run
MaxDiskOps == 1
\* after a rewrite of the log that failed part-way, at most this many more
\* keys are followed: the program goes on as if started on the damaged log
MaxKeysAfterFault == 0

----------------------------------------------------------------------------
(* Text helpers: the std library functions the code calls *)

TAB == "\t"
NL == "\n"
CR == "\r"

UpperAlpha == <<"A","B","C","D","E","F","G","H","I","J","K","L","M",
                "N","O","P","Q","R","S","T","U","V","W","X","Y","Z">>
LowerAlpha == <<"a","b","c","d","e","f","g","h","i","j","k","l","m",
                "n","o","p","q","r","s","t","u","v","w","x","y","z">>

\* char::to_lowercase on the characters of the model (ASCII)
LowerChar(c) ==
    IF \E i \in 1..26 : UpperAlpha[i] = c
    THEN LowerAlpha[CHOOSE i \in 1..26 : UpperAlpha[i] = c]
    ELSE c

\* str::to_lowercase
to_lowercase(s) == [i \in 1..Len(s) |-> LowerChar(s[i])]

\* str::contains(&str): the pattern occurs at some offset
contains(s, pat) ==
    \E i \in 0..Len(s) :
        /\ i + Len(pat) <= Len(s)
        /\ SubSeq(s, i + 1, i + Len(pat)) = pat

\* str::split(char): the pieces between separators, always at least one
RECURSIVE split(_, _)
split(s, sep) ==
    IF \E i \in 1..Len(s) : s[i] = sep
    THEN LET i == CHOOSE k \in 1..Len(s) :
                      s[k] = sep /\ \A j \in 1..(k - 1) : s[j] # sep
         IN  <<SubSeq(s, 1, i - 1)>> \o split(SubSeq(s, i + 1, Len(s)), sep)
    ELSE <<s>>

\* str::lines: split at "\n", a final empty piece is no line, and a line
\* that was ended by "\n" loses one "\r" before it
lines(s) ==
    LET raw == split(s, NL)
        n == Len(raw)
        strip(l) == IF Len(l) > 0 /\ l[Len(l)] = CR
                    THEN SubSeq(l, 1, Len(l) - 1) ELSE l
    IN  [i \in 1..(IF raw[n] = <<>> THEN n - 1 ELSE n) |->
            IF i < n THEN strip(raw[i]) ELSE raw[i]]

\* [String]::join(&str)
RECURSIVE join(_, _)
join(ss, sep) ==
    IF Len(ss) = 0 THEN <<>>
    ELSE IF Len(ss) = 1 THEN ss[1]
    ELSE ss[1] \o <<sep>> \o join(Tail(ss), sep)

\* Path::file_name().and_then(to_str): the last component of the path when
\* it is a normal one; "." components and repeated or trailing separators
\* are skipped, and a path ending in ".." or without a component has none
FileName(path) ==
    LET parts == split(path, "/")
        keep == {i \in 1..Len(parts) : parts[i] # <<>> /\ parts[i] # <<".">>}
    IN  IF keep = {} THEN [some |-> FALSE, val |-> <<>>]
        ELSE LET l == CHOOSE i \in keep : \A j \in keep : j <= i
             IN  IF parts[l] = <<".", ".">>
                 THEN [some |-> FALSE, val |-> <<>>]
                 ELSE [some |-> TRUE, val |-> parts[l]]

----------------------------------------------------------------------------
(* Timestamps: DateTime::parse_from_rfc3339 and with_timezone(&Utc) *)

Digits == <<"0","1","2","3","4","5","6","7","8","9">>
IsDigit(c) == \E d \in 1..10 : Digits[d] = c
DigitVal(c) == (CHOOSE d \in 1..10 : Digits[d] = c) - 1

\* value of the decimal number at s[a..b], all of them digits
RECURSIVE Num(_, _, _)
Num(s, a, b) == IF b < a THEN 0 ELSE Num(s, a, b - 1) * 10 + DigitVal(s[b])

AllDigits(s, a, b) == \A i \in a..b : IsDigit(s[i])

IsLeap(y) == (y % 4 = 0 /\ y % 100 # 0) \/ y % 400 = 0
DaysInMonth(y, m) ==
    IF m = 2 THEN (IF IsLeap(y) THEN 29 ELSE 28)
    ELSE IF m \in {4, 6, 9, 11} THEN 30 ELSE 31

\* days since 1970-01-01 of a civil date
DaysFromCivil(y, m, d) ==
    LET yy == IF m <= 2 THEN y - 1 ELSE y
        era == yy \div 400
        yoe == yy - era * 400
        mp == IF m > 2 THEN m - 3 ELSE m + 9
        doy == (153 * mp + 2) \div 5 + d - 1
        doe == yoe * 365 + yoe \div 4 - yoe \div 100 + doy
    IN  era * 146097 + doe - 719468

Pow10 == <<1, 10, 100, 1000, 10000, 100000, 1000000, 10000000, 100000000>>

\* DateTime::parse_from_rfc3339(s).ok().map(|t| t.with_timezone(&Utc)) on
\* ASCII text: YYYY-MM-DD, one of "T", "t", " ", HH:MM:SS, an optional "."
\* with one or more digits (those after the ninth are dropped), and "Z", "z"
\* or an offset +HH:MM / -HH:MM of at most 23:59. The seconds go up to 60:
\* a leap second is second 59 with one more second in the fraction. The
\* result is the instant in UTC as chrono holds it: the day since 1970-01-01,
\* the second of that day and the nanoseconds (below 2 000 000 000), so that
\* timestamp() is days * 86400 + secs and timestamp_subsec_nanos() is frac
ParseRfc3339(s) ==
    LET none == [some |-> FALSE, val |-> [days |-> 0, secs |-> 0, frac |-> 0]]
        n == Len(s)
        head == /\ n >= 20
                /\ AllDigits(s, 1, 4) /\ s[5] = "-"
                /\ AllDigits(s, 6, 7) /\ s[8] = "-"
                /\ AllDigits(s, 9, 10) /\ s[11] \in {"T", "t", " "}
                /\ AllDigits(s, 12, 13) /\ s[14] = ":"
                /\ AllDigits(s, 15, 16) /\ s[17] = ":"
                /\ AllDigits(s, 18, 19)
    IN  IF ~head THEN none
        ELSE LET point == s[20] = "."
                 \* the last of the digits that follow the point
                 fe == IF point
                       THEN CHOOSE k \in 20..n :
                                /\ AllDigits(s, 21, k)
                                /\ (k = n \/ ~IsDigit(s[k + 1]))
                       ELSE 19
                 nd == IF point THEN fe - 20 ELSE 0
                 kept == IF nd > 9 THEN 9 ELSE nd
                 nano == IF kept = 0 THEN 0
                         ELSE Num(s, 21, 20 + kept) * Pow10[10 - kept]
                 z == fe + 1
                 zone == /\ ~(point /\ nd = 0)
                         /\ z <= n
                         /\ \/ (n = z /\ s[z] \in {"Z", "z"})
                            \/ /\ n = z + 5
                               /\ s[z] \in {"+", "-"}
                               /\ AllDigits(s, z + 1, z + 2) /\ s[z + 3] = ":"
                               /\ AllDigits(s, z + 4, z + 5)
             IN  IF ~zone THEN none
                 ELSE LET y == Num(s, 1, 4)
                          mo == Num(s, 6, 7)
                          d == Num(s, 9, 10)
                          h == Num(s, 12, 13)
                          mi == Num(s, 15, 16)
                          sec == Num(s, 18, 19)
                          oh == IF n = z + 5 THEN Num(s, z + 1, z + 2) ELSE 0
                          om == IF n = z + 5 THEN Num(s, z + 4, z + 5) ELSE 0
                          off == (oh * 3600 + om * 60)
                                     * (IF s[z] = "-" THEN -1 ELSE 1)
                          ok == /\ mo \in 1..12 /\ d >= 1 /\ d <= DaysInMonth(y, mo)
                                /\ h <= 23 /\ mi <= 59 /\ sec <= 60
                                /\ oh <= 23 /\ om <= 59
                          leap == sec = 60
                          local == h * 3600 + mi * 60 + (IF leap THEN 59 ELSE sec)
                          utc == local - off
                      IN  IF ~ok THEN none
                          ELSE [some |-> TRUE,
                                val |-> [days |-> DaysFromCivil(y, mo, d)
                                                      + (utc \div 86400),
                                         secs |-> utc % 86400,
                                         frac |-> nano + (IF leap THEN 1000000000
                                                          ELSE 0)]]

\* Ord of DateTime<Utc>: by day, then second of the day, then fraction
TsBefore(a, b) ==
    \/ a.days < b.days
    \/ /\ a.days = b.days
       /\ \/ a.secs < b.secs
          \/ (a.secs = b.secs /\ a.frac < b.frac)

----------------------------------------------------------------------------
(* src/log.rs: the log store *)

None == [some |-> FALSE, val |-> 0]
Some(x) == [some |-> TRUE, val |-> x]

\* the marker of a removed entry, the literal "removed"
REMOVED == <<"r","e","m","o","v","e","d">>

\* format!("{}", n): the decimal digits of n
RECURSIVE DecimalOf(_)
DecimalOf(n) ==
    IF n < 10 THEN <<Digits[n + 1]>>
    ELSE DecimalOf(n \div 10) \o <<Digits[(n % 10) + 1]>>

\* format!("{:.1}", size as f64 / unit as f64) for a unit that is a power of
\* 1024: the quotient is exact in f64, and it is rounded to one decimal with
\* ties going to the even digit. The remainder is split so that no product
\* leaves 32 bits.
FormatTenths(size, unit) ==
    LET q == size \div unit
        r == size % unit
        u == unit \div 1024
        a == r \div u
        b == r % u
        w == 20 * a + (20 * b) \div u
        n20 == w \div 1024
        exact == (20 * b) % u = 0 /\ w % 1024 = 0
        t0 == n20 \div 2
        t == IF n20 % 2 = 0 THEN t0
             ELSE IF exact /\ t0 % 2 = 0 THEN t0 ELSE t0 + 1
    IN  IF t = 10 THEN DecimalOf(q + 1) \o <<".", "0">>
        ELSE DecimalOf(q) \o <<".", Digits[t + 1]>>

\* a size_human whose first comparison is <=
size_human_le(size) ==
    IF ~size.some THEN <<"N", "/", "A">>
    ELSE IF size.val <= 1024 THEN DecimalOf(size.val) \o <<" ", "B">>
    ELSE IF size.val < 1024 * 1024
         THEN FormatTenths(size.val, 1024) \o <<" ", "K", "B">>
    ELSE IF size.val < 1024 * 1024 * 1024
         THEN FormatTenths(size.val, 1024 * 1024) \o <<" ", "M", "B">>
    ELSE FormatTenths(size.val, 1024 * 1024 * 1024) \o <<" ", "G", "B">>

\* InstallEntry::size_human on the size field
size_human(size) ==
    IF ~size.some THEN <<"N", "/", "A">>
    ELSE IF size.val < 1024 THEN DecimalOf(size.val) \o <<" ", "B">>
    ELSE IF size.val < 1024 * 1024
         THEN FormatTenths(size.val, 1024) \o <<" ", "K", "B">>
    ELSE IF size.val < 1024 * 1024 * 1024
         THEN FormatTenths(size.val, 1024 * 1024) \o <<" ", "M", "B">>
    ELSE FormatTenths(size.val, 1024 * 1024 * 1024) \o <<" ", "G", "B">>

\* The modelled file system: fsys maps the path of each regular file to its
\* size, or to None while the file is missing. The directories are the root
\* and the directories the files live in; they exist throughout, and
\* metadata reports one block for each. A node is the sequence of its names
\* from the root.
Dirs == {<<>>, <<<<"B">>>>, <<<<"c">>>>}
DirLen == 4096

\* the absolute path of a node below the root
RECURSIVE NodePath(_)
NodePath(node) ==
    IF Len(node) = 0 THEN <<>>
    ELSE <<"/">> \o Head(node) \o NodePath(Tail(node))

IsDir(node) == node \in Dirs
IsFile(fsys, node) ==
    NodePath(node) \in DOMAIN fsys /\ fsys[NodePath(node)].some

\* path resolution from node cur over the components parts[i..]: an empty
\* component (a repeated or trailing "/") and "." stay, ".." goes up, a name
\* goes down to a node that exists; every step needs cur to be a directory
RECURSIVE Walk(_, _, _, _)
Walk(fsys, parts, i, cur) ==
    IF i > Len(parts) THEN [some |-> TRUE, val |-> cur]
    ELSE IF ~IsDir(cur) THEN [some |-> FALSE, val |-> <<>>]
    ELSE IF parts[i] = <<>> \/ parts[i] = <<".">>
         THEN Walk(fsys, parts, i + 1, cur)
    ELSE IF parts[i] = <<".", ".">>
         THEN Walk(fsys, parts, i + 1,
                   IF cur = <<>> THEN cur ELSE SubSeq(cur, 1, Len(cur) - 1))
    ELSE LET nxt == Append(cur, parts[i])
         IN  IF IsDir(nxt) \/ IsFile(fsys, nxt)
             THEN Walk(fsys, parts, i + 1, nxt)
             ELSE [some |-> FALSE, val |-> <<>>]

\* the working directory of the process: the code never changes it
Cwd == <<>>

\* the node a path names, if any: an absolute path is walked from the root,
\* a relative one from the working directory, and the empty path names
\* nothing
Resolve(fsys, path) ==
    IF path = <<>> THEN [some |-> FALSE, val |-> <<>>]
    ELSE IF path[1] = "/" THEN Walk(fsys, split(path, "/"), 2, <<>>)
    ELSE Walk(fsys, split(path, "/"), 1, Cwd)

\* fs::metadata(path).ok().map(|m| m.len()): the size of the regular file or
\* of the directory the path names
MetadataLen(fsys, path) ==
    LET r == Resolve(fsys, path)
    IN  IF ~r.some THEN None
        ELSE IF IsDir(r.val) THEN Some(DirLen)
        ELSE Some(fsys[NodePath(r.val)].val)

\* a closure that takes only lines of exactly three fields
ParseLine_three_only(line, fsys) ==
    LET parts == split(line, TAB)
    IN  IF Len(parts) # 3 THEN [some |-> FALSE]
        ELSE LET ts == ParseRfc3339(parts[1])
             IN  IF ~ts.some THEN [some |-> FALSE]
                 ELSE [some |-> TRUE,
                       val |-> [timestamp |-> ts.val,
                                repo |-> parts[2],
                                path |-> parts[3],
                                removed |-> FALSE,
                                size |-> MetadataLen(fsys, parts[3])]]

\* the closure of load_log's filter_map: one line to Some(entry) or None
ParseLine(line, fsys) ==
    LET parts == split(line, TAB)
    IN  IF Len(parts) < 3 THEN [some |-> FALSE]
        ELSE LET removed == IF Len(parts) >= 4 THEN parts[4] = REMOVED ELSE FALSE
                 ts == ParseRfc3339(parts[1])
             IN  IF ~ts.some THEN [some |-> FALSE]
                 ELSE [some |-> TRUE,
                       val |-> [timestamp |-> ts.val,
                                repo |-> parts[2],
                                path |-> parts[3],
                                removed |-> removed,
                                size |-> IF ~removed
                                         THEN MetadataLen(fsys, parts[3])
                                         ELSE None]]

\* filter_map(...).collect()
RECURSIVE FilterMapLines(_, _)
FilterMapLines(ls, fsys) ==
    IF Len(ls) = 0 THEN <<>>
    ELSE LET e == ParseLine(Head(ls), fsys)
         IN  (IF e.some THEN <<e.val>> ELSE <<>>) \o FilterMapLines(Tail(ls), fsys)

\* a comparator that also moves equal timestamps
ComesAfter_unstable(a, b) == ~TsBefore(b.timestamp, a.timestamp)

\* the comparator of sort_by: b.timestamp.cmp(&a.timestamp) is Greater, that
\* is, a must come after b
ComesAfter(a, b) == TsBefore(a.timestamp, b.timestamp)

\* slice::sort_by, a stable sort: insertion of each element after the last
\* element it does not have to precede
RECURSIVE InsertSorted(_, _)
InsertSorted(sorted, e) ==
    IF Len(sorted) = 0 THEN <<e>>
    ELSE LET l == sorted[Len(sorted)]
         IN  IF ComesAfter(l, e)
             THEN InsertSorted(SubSeq(sorted, 1, Len(sorted) - 1), e) \o <<l>>
             ELSE sorted \o <<e>>

RECURSIVE SortEntries(_)
SortEntries(es) ==
    IF Len(es) = 0 THEN <<>>
    ELSE InsertSorted(SortEntries(SubSeq(es, 1, Len(es) - 1)), es[Len(es)])

\* fs::read_to_string(&log_path).unwrap_or_default()
ReadOrDefault(lf) == IF lf.present THEN lf.bytes ELSE <<>>

load_log(lf, fsys) == SortEntries(FilterMapLines(lines(ReadOrDefault(lf)), fsys))

\* a closure that compares the wrong field with the path
MarkLine_wrong_field(line, path) ==
    LET parts == split(line, TAB)
    IN  IF Len(parts) >= 3 /\ parts[2] = path
        THEN (IF Len(parts) = 3 THEN line \o <<TAB>> \o REMOVED ELSE line)
        ELSE line

\* the closure of mark_as_removed's map: one line to its rewritten form
MarkLine(line, path) ==
    LET parts == split(line, TAB)
    IN  IF Len(parts) >= 3 /\ parts[3] = path
        THEN (IF Len(parts) = 3 THEN line \o <<TAB>> \o REMOVED ELSE line)
        ELSE line

\* the bytes mark_as_removed writes: updated.join("\n")
MarkContent(bytes, path) ==
    LET ls == lines(bytes)
    IN  join([i \in 1..Len(ls) |-> MarkLine(ls[i], path)], NL)

\* what a failed or interrupted write_all can leave in the truncated file:
\* the bytes the writes before the failure accepted, any proper prefix of
\* the new content
PartialWrites(new) == {SubSeq(new, 1, k) : k \in 0..(Len(new) - 1)}

\* mark_as_removed(path) with the outcome of its I/O: the log file after the
\* call and whether it returned Ok
\*   "read_fail"  read_to_string fails, nothing is touched
\*   "open_fail"  the open for write fails, nothing is touched
\*   "write_fail" the file was truncated and write_all fails after a prefix
\*   "crash"      the process dies after the truncation, within the write
\*   "ok"         the new content is written
mark_as_removed(lf, path, io, part) ==
    IF io = "read_fail" \/ ~lf.present THEN [log |-> lf, ok |-> FALSE]
    ELSE IF io = "open_fail" THEN [log |-> lf, ok |-> FALSE]
    ELSE IF io \in {"write_fail", "crash"}
         THEN [log |-> [present |-> TRUE, bytes |-> part], ok |-> FALSE]
    ELSE [log |-> [present |-> TRUE, bytes |-> MarkContent(lf.bytes, path)],
          ok |-> TRUE]

----------------------------------------------------------------------------
(* src/app.rs: the selection engine *)

\* (0..n).collect()
Identity(n) == [i \in 1..n |-> i - 1]

\* a filter closure that forgets the repo
Matches_norepo(e, filter) ==
    LET fname == FileName(e.path)
        name == IF fname.some THEN fname.val ELSE <<>>
    IN  \/ contains(to_lowercase(name), filter)
        \/ contains(to_lowercase(e.path), filter)

\* the filter closure of apply_filter, on the lower-cased filter
Matches(e, filter) ==
    LET fname == FileName(e.path)
        name == IF fname.some THEN fname.val ELSE <<>>
    IN  \/ contains(to_lowercase(name), filter)
        \/ contains(to_lowercase(e.repo), filter)
        \/ contains(to_lowercase(e.path), filter)

\* enumerate().filter(..).map(|(i, _)| i).collect()
RECURSIVE FilterFrom(_, _, _)
FilterFrom(entries, filter, i) ==
    IF i > Len(entries) THEN <<>>
    ELSE (IF Matches(entries[i], filter) THEN <<i - 1>> ELSE <<>>)
         \o FilterFrom(entries, filter, i + 1)

\* the filtered_entries apply_filter computes from the entries and the text
FilteredOf(entries, text) ==
    LET filter == to_lowercase(text)
    IN  IF filter = <<>> THEN Identity(Len(entries))
        ELSE FilterFrom(entries, filter, 1)

\* a reset that always goes back to the first entry
ClampSelected_reset(sel, n) == 0

\* a reset that is left out
ClampSelected_none(sel, n) == sel

\* the "reset selection" of apply_filter
ClampSelected(sel, n) ==
    IF sel >= n THEN (IF n = 0 THEN 0 ELSE n - 1) ELSE sel

\* an apply_filter that keeps the narrowed view when the text is empty
apply_filter_incremental(entries, filtered, sel, text) ==
    LET f == IF to_lowercase(text) = <<>> THEN filtered
             ELSE FilteredOf(entries, text)
    IN  [filtered_entries |-> f, selected |-> ClampSelected(sel, Len(f))]

\* App::apply_filter on the fields it reads and writes
apply_filter(entries, filtered, sel, text) ==
    LET f == FilteredOf(entries, text)
    IN  [filtered_entries |-> f, selected |-> ClampSelected(sel, Len(f))]

\* a next that stops at the last entry
NextSelected_nowrap(sel, n) == IF n # 0 /\ sel + 1 < n THEN sel + 1 ELSE sel

\* App::next and App::prev on the cursor
NextSelected(sel, n) == IF n # 0 THEN (sel + 1) % n ELSE sel
PrevSelected(sel, n) ==
    IF n # 0 THEN (IF sel = 0 THEN n - 1 ELSE sel - 1) ELSE sel

\* App::current: the entry under the cursor, if any
Current(entries, filtered, sel) ==
    IF sel + 1 <= Len(filtered) /\ filtered[sel + 1] + 1 <= Len(entries)
    THEN [some |-> TRUE, val |-> entries[filtered[sel + 1] + 1]]
    ELSE [some |-> FALSE]

----------------------------------------------------------------------------
(* The inputs of the model: log contents, files and keys *)

TsOld == <<"2","0","2","4","-","0","1","-","0","1","T",
           "0","0",":","0","0",":","0","0","Z">>
\* the same instant as TsOld, written with an offset
TsOldOff == <<"2","0","2","4","-","0","1","-","0","1","T",
              "0","1",":","0","0",":","0","0","+","0","1",":","0","0">>
TsNew == <<"2","0","2","4","-","0","1","-","0","2","T",
           "0","0",":","0","0",":","0","0","Z">>
TsEget == <<"2","0","2","4","-","0","1","-","0","3","T",
            "0","0",":","0","0",":","0","0","Z">>
\* the leap second that ends 2023, the last instant before TsOld
TsLeap == <<"2","0","2","3","-","1","2","-","3","1","T",
            "2","3",":","5","9",":","6","0","Z">>
\* half a second after TsOld
TsFrac == <<"2","0","2","4","-","0","1","-","0","1","T",
            "0","0",":","0","0",":","0","0",".","5","Z">>

RepoA == <<"x","/","A">>
RepoB == <<"b","a">>
PathA == <<"/","B","/","a">>
PathB == <<"/","c","/","a">>
\* a relative path without a file name component: the directory above the
\* working directory
PathC == <<".", ".">>

Line3(ts, repo, path) == ts \o <<TAB>> \o repo \o <<TAB>> \o path
LnA == Line3(TsNew, RepoA, PathA)
LnB == Line3(TsOld, RepoB, PathB)
LnC == Line3(TsOldOff, RepoB, PathC)
LnAr == Line3(TsFrac, RepoA, PathA) \o <<TAB>> \o REMOVED
LnAx == Line3(TsLeap, RepoA, PathA) \o <<TAB, "x">>
LnBad2 == <<"x", TAB>> \o PathA
LnBadTs == Line3(<<"x">>, RepoB, PathA)

\* the log files the program is started on
InitLogs ==
    { [present |-> FALSE, bytes |-> <<>>],
      [present |-> TRUE, bytes |-> <<>>],
      [present |-> TRUE, bytes |-> LnB \o <<NL>> \o LnA \o <<NL>>],
      [present |-> TRUE, bytes |-> LnA \o <<NL>> \o LnC \o <<NL>> \o LnB],
      [present |-> TRUE, bytes |-> LnBad2 \o <<NL>> \o LnA \o <<NL, NL>>],
      [present |-> TRUE, bytes |-> LnBadTs \o <<NL>> \o LnB \o <<NL>> \o LnAr \o <<NL>>],
      [present |-> TRUE, bytes |-> LnAx \o <<NL>> \o LnA \o <<NL>>] }

\* the paths that can be regular files, and the sizes they can have
FilePaths == {PathA, PathB}
FileSizes == {1536}
InitFs == [FilePaths -> {None} \cup {Some(n) : n \in FileSizes}]

\* the characters typed into the filter
FilterChars == {"a", "B", "x"}

\* the outcomes of the I/O of mark_as_removed
IoOutcomes == {"ok", "read_fail", "open_fail", "write_fail", "crash"}

----------------------------------------------------------------------------
(* src/main.rs: the key-event loop *)

\* App::new: the fields of a fresh App
AppNew(entries) ==
    [all_entries |-> entries,
     filtered_entries |-> Identity(Len(entries)),
     selected |-> 0,
     input_mode |-> "Normal",
     filter_input |-> <<>>]

\* std::fs::remove_file: fails on a path that names no regular file (a
\* missing file, a directory), or when denied
RemoveFile(fsys, path, allowed) ==
    LET r == Resolve(fsys, path)
    IN  IF r.some /\ IsFile(fsys, r.val) /\ allowed
        THEN [ok |-> TRUE, fs |-> [fsys EXCEPT ![NodePath(r.val)] = None]]
        ELSE [ok |-> FALSE, fs |-> fsys]

\* a 'd' branch that marks the entry whatever remove_file returned
DeleteEntry_always_marks(lf, fsys, path, allowed, io, part) ==
    LET rm == RemoveFile(fsys, path, allowed)
        m == mark_as_removed(lf, path, io, part)
    IN  [removeOk |-> rm.ok, marked |-> TRUE, markOk |-> m.ok,
         fs |-> rm.fs, log |-> m.log,
         crashed |-> (io = "crash" /\ lf.present),
         reload |-> ~(io = "crash" /\ lf.present)]

\* the body of the 'd' branch for the current entry's path: what it does to
\* the file system and the log, and whether it goes on to reload
DeleteEntry(lf, fsys, path, allowed, io, part) ==
    LET rm == RemoveFile(fsys, path, allowed)
    IN  IF rm.ok
        THEN LET m == mark_as_removed(lf, path, io, part)
             IN  [removeOk |-> TRUE, marked |-> TRUE, markOk |-> m.ok,
                  fs |-> rm.fs, log |-> m.log,
                  crashed |-> (io = "crash" /\ lf.present),
                  reload |-> ~(io = "crash" /\ lf.present)]
        ELSE [removeOk |-> FALSE, marked |-> FALSE, markOk |-> FALSE,
              fs |-> fsys, log |-> lf, crashed |-> FALSE, reload |-> FALSE]

\* what running "eget <repo>" can do to the log and the files: nothing, or
\* (on success) install the file and append a line for it to the log
EgetEffects(lf, fsys, repo, path, status) ==
    {[log |-> lf, fs |-> fsys]} \cup
    IF status = "success" /\ lf.present /\ path \in DOMAIN fsys
       /\ Len(lines(lf.bytes)) < MaxLines /\ disk_ops < MaxDiskOps
    THEN {[log |-> [present |-> TRUE,
                    bytes |-> lf.bytes \o Line3(TsEget, repo, path) \o <<NL>>],
           fs |-> [fsys EXCEPT ![path] = Some(n)]] : n \in FileSizes}
    ELSE {}

\* the record of the last handler that ran (history, not program state)
NoLast ==
    [key |-> "none", applied |-> FALSE, from |-> 0, lenBefore |-> 0,
     start |-> 0, count |-> 0,
     removeOk |-> FALSE, marked |-> FALSE, io |-> "none", path |-> <<>>,
     before |-> [present |-> FALSE, bytes |-> <<>>], reloaded |-> FALSE,
     term |-> "none"]

Init ==
    /\ logfile \in InitLogs
    /\ fs \in InitFs
    /\ all_entries = load_log(logfile, fs)
    /\ filtered_entries = Identity(Len(all_entries))
    /\ selected = 0
    /\ input_mode = "Normal"
    /\ filter_input = <<>>
    /\ pc = "running"
    /\ disk_ops = 0
    /\ fault_age = 0
    /\ last = NoLast

\* fault_age is 0 until a rewrite of the log fails part-way, and from then
\* on one more than the number of keys handled since
Followed == fault_age <= MaxKeysAfterFault
Aged == fault_age' = IF fault_age > 0 THEN fault_age + 1 ELSE 0

\* the loop is about to handle a key in this mode
Normal == pc = "running" /\ input_mode = "Normal" /\ Followed
Filter == pc = "running" /\ input_mode = "Filter" /\ Followed

\* the number of consecutive presses of the same move key, over one cycle
MoveCount(key) ==
    IF last.key = key /\ last.count < Len(filtered_entries)
    THEN last.count + 1 ELSE 1
MoveStart(key) ==
    IF last.key = key /\ last.count < Len(filtered_entries)
    THEN last.start ELSE selected

\* KeyCode::Char('q')
KeyQuit ==
    /\ Normal
    /\ Aged
    /\ pc' = "quit"
    /\ last' = [NoLast EXCEPT !.key = "q"]
    /\ UNCHANGED <<all_entries, filtered_entries, selected, input_mode,
                   filter_input, logfile, fs, disk_ops>>

\* KeyCode::Down | KeyCode::Char('j')
KeyNext ==
    /\ Normal
    /\ Aged
    /\ selected' = NextSelected(selected, Len(filtered_entries))
    /\ last' = [NoLast EXCEPT !.key = "j", !.from = selected,
                              !.start = MoveStart("j"), !.count = MoveCount("j")]
    /\ UNCHANGED <<all_entries, filtered_entries, input_mode, filter_input,
                   logfile, fs, pc, disk_ops>>

\* KeyCode::Up | KeyCode::Char('k')
KeyPrev ==
    /\ Normal
    /\ Aged
    /\ selected' = PrevSelected(selected, Len(filtered_entries))
    /\ last' = [NoLast EXCEPT !.key = "k", !.from = selected,
                              !.start = MoveStart("k"), !.count = MoveCount("k")]
    /\ UNCHANGED <<all_entries, filtered_entries, input_mode, filter_input,
                   logfile, fs, pc, disk_ops>>

\* KeyCode::Char('/')
KeySlash ==
    /\ Normal
    /\ Aged
    /\ input_mode' = "Filter"
    /\ filter_input' = <<>>
    /\ last' = [NoLast EXCEPT !.key = "/", !.from = selected]
    /\ UNCHANGED <<all_entries, filtered_entries, selected, logfile, fs, pc, disk_ops>>

\* a reload that replaces the records and keeps the rest of the App
SetApp_records_only(app) ==
    /\ all_entries' = app.all_entries
    /\ UNCHANGED <<filtered_entries, selected, input_mode, filter_input>>

SetApp(app) ==
    /\ all_entries' = app.all_entries
    /\ filtered_entries' = app.filtered_entries
    /\ selected' = app.selected
    /\ input_mode' = app.input_mode
    /\ filter_input' = app.filter_input

\* KeyCode::Char('d')
KeyDelete ==
    /\ Normal
    /\ LET cur == Current(all_entries, filtered_entries, selected)
       IN  IF ~cur.some
           THEN /\ last' = [NoLast EXCEPT !.key = "d", !.from = selected,
                                          !.before = logfile]
                /\ Aged
                /\ UNCHANGED <<all_entries, filtered_entries, selected,
                               input_mode, filter_input, logfile, fs, pc, disk_ops>>
           ELSE \E allowed \in {a \in BOOLEAN : a => disk_ops < MaxDiskOps} :
                \* the I/O of mark_as_removed has an outcome only when it is
                \* called, and a part-way content only when the write stops
                \E io \in IF RemoveFile(fs, cur.val.path, allowed).ok
                           THEN IoOutcomes ELSE {"ok"} :
                \E part \in IF io \in {"write_fail", "crash"}
                             THEN PartialWrites(MarkContent(logfile.bytes,
                                                            cur.val.path))
                             ELSE {<<>>} :
                \E d \in {DeleteEntry(logfile, fs, cur.val.path, allowed, io, part)} :
                    /\ fs' = d.fs
                    /\ logfile' = d.log
                    /\ pc' = IF d.crashed THEN "crashed" ELSE pc
                    /\ disk_ops' = IF d.removeOk THEN disk_ops + 1 ELSE disk_ops
                    /\ IF d.marked /\ io = "write_fail" /\ logfile.present
                       THEN fault_age' = 1
                       ELSE Aged
                    /\ IF d.reload
                       THEN SetApp(AppNew(load_log(d.log, d.fs)))
                       ELSE UNCHANGED <<all_entries, filtered_entries, selected,
                                        input_mode, filter_input>>
                    /\ last' = [NoLast EXCEPT !.key = "d", !.from = selected,
                                   !.removeOk = d.removeOk, !.marked = d.marked,
                                   !.io = IF d.marked THEN io ELSE "none",
                                   !.path = cur.val.path, !.before = logfile,
                                   !.reloaded = d.reload]

\* the outcomes of Command::new("eget").arg(&repo).status()
EgetStatuses == {"success", "nonzero", "spawn_fail"}

\* an update that reloads only after a successful command
KeyUpdate_reload_on_success ==
    /\ Normal
    /\ Aged
    /\ LET cur == Current(all_entries, filtered_entries, selected)
       IN  IF ~cur.some
           THEN /\ last' = [NoLast EXCEPT !.key = "u", !.from = selected]
                /\ UNCHANGED <<all_entries, filtered_entries, selected,
                               input_mode, filter_input, logfile, fs, pc, disk_ops>>
           ELSE \/ \* disable_raw_mode()? or execute!(.., LeaveAlternateScreen)?
                   \* returns the error, or println!("Running: ..") panics
                   \* on a failed write: the program ends before the
                   \* command runs
                   \E term \in {"leave_fail", "announce_panic"} :
                   /\ pc' = IF term = "leave_fail" THEN "failed" ELSE "panicked"
                   /\ last' = [NoLast EXCEPT !.key = "u", !.term = term]
                   /\ UNCHANGED <<all_entries, filtered_entries, selected,
                                  input_mode, filter_input, logfile, fs, disk_ops>>
                \/ \E term \in {"ok", "report_panic", "enter_fail"},
                      status \in EgetStatuses :
                   \E eff \in EgetEffects(logfile, fs, cur.val.repo, cur.val.path, status) :
                       /\ fs' = eff.fs
                       /\ logfile' = eff.log
                       /\ disk_ops' = IF eff.log # logfile THEN disk_ops + 1
                                      ELSE disk_ops
                       /\ IF term = "ok"
                          THEN \* the handler goes on to load_log and App::new
                               /\ IF (status = "success")
                                  THEN SetApp(AppNew(load_log(eff.log, eff.fs)))
                                  ELSE UNCHANGED <<all_entries, filtered_entries,
                                                   selected, input_mode, filter_input>>
                               /\ last' = [NoLast EXCEPT !.key = "u", !.from = selected,
                                              !.io = status, !.path = cur.val.repo,
                                              !.before = logfile, !.term = "ok",
                                              !.reloaded = (status = "success")]
                               /\ UNCHANGED pc
                          ELSE \* a println! after the command panics on a
                               \* failed write, or enable_raw_mode()? or
                               \* execute!(.., EnterAlternateScreen)? returns
                               \* the error: the program ends without a reload
                               /\ pc' = IF term = "enter_fail" THEN "failed"
                                        ELSE "panicked"
                               /\ last' = [NoLast EXCEPT !.key = "u", !.io = status,
                                              !.path = cur.val.repo,
                                              !.term = term]
                               /\ UNCHANGED <<all_entries, filtered_entries,
                                              selected, input_mode, filter_input>>

\* KeyCode::Char('u') | KeyCode::Char('r'). The handler leaves the TUI,
\* prints the command, runs it, prints its result and a prompt, waits for a
\* line on stdin and re-enters the TUI. Each of the two switches can fail,
\* and then run_app returns the error; each println! panics when standard
\* output cannot be written, and then the process ends
KeyUpdate ==
    /\ Normal
    /\ Aged
    /\ LET cur == Current(all_entries, filtered_entries, selected)
       IN  IF ~cur.some
           THEN /\ last' = [NoLast EXCEPT !.key = "u", !.from = selected]
                /\ UNCHANGED <<all_entries, filtered_entries, selected,
                               input_mode, filter_input, logfile, fs, pc, disk_ops>>
           ELSE \/ \* disable_raw_mode()? or execute!(.., LeaveAlternateScreen)?
                   \* returns the error, or println!("Running: ..") panics
                   \* on a failed write: the program ends before the
                   \* command runs
                   \E term \in {"leave_fail", "announce_panic"} :
                   /\ pc' = IF term = "leave_fail" THEN "failed" ELSE "panicked"
                   /\ last' = [NoLast EXCEPT !.key = "u", !.term = term]
                   /\ UNCHANGED <<all_entries, filtered_entries, selected,
                                  input_mode, filter_input, logfile, fs, disk_ops>>
                \/ \E term \in {"ok", "report_panic", "enter_fail"},
                      status \in EgetStatuses :
                   \E eff \in EgetEffects(logfile, fs, cur.val.repo, cur.val.path, status) :
                       /\ fs' = eff.fs
                       /\ logfile' = eff.log
                       /\ disk_ops' = IF eff.log # logfile THEN disk_ops + 1
                                      ELSE disk_ops
                       /\ IF term = "ok"
                          THEN \* the handler goes on to load_log and App::new
                               /\ SetApp(AppNew(load_log(eff.log, eff.fs)))
                               /\ last' = [NoLast EXCEPT !.key = "u", !.from = selected,
                                              !.io = status, !.path = cur.val.repo,
                                              !.before = logfile, !.term = "ok",
                                              !.reloaded = TRUE]
                               /\ UNCHANGED pc
                          ELSE \* a println! after the command panics on a
                               \* failed write, or enable_raw_mode()? or
                               \* execute!(.., EnterAlternateScreen)? returns
                               \* the error: the program ends without a reload
                               /\ pc' = IF term = "enter_fail" THEN "failed"
                                        ELSE "panicked"
                               /\ last' = [NoLast EXCEPT !.key = "u", !.io = status,
                                              !.path = cur.val.repo,
                                              !.term = term]
                               /\ UNCHANGED <<all_entries, filtered_entries,
                                              selected, input_mode, filter_input>>

\* any other key in Normal mode
KeyOtherNormal ==
    /\ Normal
    /\ Aged
    /\ last' = [NoLast EXCEPT !.key = "other", !.from = selected]
    /\ UNCHANGED <<all_entries, filtered_entries, selected, input_mode,
                   filter_input, logfile, fs, pc, disk_ops>>

\* the handlers of Filter mode that end by app.apply_filter()
FilterEdit(key, mode, text) ==
    /\ \E r \in {apply_filter(all_entries, filtered_entries, selected, text)} :
           /\ filtered_entries' = r.filtered_entries
           /\ selected' = r.selected
    /\ input_mode' = mode
    /\ filter_input' = text
    /\ last' = [NoLast EXCEPT !.key = key, !.applied = TRUE, !.from = selected,
                              !.lenBefore = Len(filtered_entries)]
    /\ UNCHANGED <<all_entries, logfile, fs, pc, disk_ops>>

\* KeyCode::Enter
KeyEnter ==
    /\ Filter
    /\ Aged
    /\ FilterEdit("enter", "Normal", filter_input)

\* a cancel that only abandons the text buffer
KeyEsc_abandon ==
    /\ Filter
    /\ Aged
    /\ input_mode' = "Normal"
    /\ filter_input' = <<>>
    /\ last' = [NoLast EXCEPT !.key = "esc", !.from = selected,
                              !.lenBefore = Len(filtered_entries)]
    /\ UNCHANGED <<all_entries, filtered_entries, selected, logfile, fs, pc,
                   disk_ops>>

\* KeyCode::Esc
KeyEsc ==
    /\ Filter
    /\ Aged
    /\ FilterEdit("esc", "Normal", <<>>)

\* a character key that leaves the filtering to the commit
KeyChar_batched ==
    \E c \in FilterChars :
        /\ Filter
        /\ Aged
        /\ Len(filter_input) < MaxFilterLen
        /\ filter_input' = Append(filter_input, c)
        /\ last' = [NoLast EXCEPT !.key = "char", !.from = selected,
                                  !.lenBefore = Len(filtered_entries)]
        /\ UNCHANGED <<all_entries, filtered_entries, selected, input_mode,
                       logfile, fs, pc, disk_ops>>

\* KeyCode::Char(c)
KeyChar ==
    \E c \in FilterChars :
        /\ Filter
        /\ Aged
        /\ Len(filter_input) < MaxFilterLen
        /\ FilterEdit("char", "Filter", Append(filter_input, c))

\* KeyCode::Backspace: String::pop, nothing on the empty string
KeyBackspace ==
    /\ Filter
    /\ Aged
    /\ FilterEdit("backspace", "Filter",
                  IF filter_input = <<>> THEN <<>>
                  ELSE SubSeq(filter_input, 1, Len(filter_input) - 1))

\* any other key in Filter mode
KeyOtherFilter ==
    /\ Filter
    /\ Aged
    /\ last' = [NoLast EXCEPT !.key = "other", !.from = selected]
    /\ UNCHANGED <<all_entries, filtered_entries, selected, input_mode,
                   filter_input, logfile, fs, pc, disk_ops>>

\* terminal.draw(..)?, event::poll(..)? or event::read()? returns an error
\* (main.rs:52, 55, 56): run_app returns it, in either mode, before a
\* handler runs; the three leave the same state
LoopError ==
    /\ pc = "running"
    /\ Aged
    /\ pc' = "failed"
    /\ last' = [NoLast EXCEPT !.key = "error"]
    /\ UNCHANGED <<all_entries, filtered_entries, selected, input_mode,
                   filter_input, logfile, fs, disk_ops>>

Next ==
    \/ KeyQuit \/ KeyNext \/ KeyPrev \/ KeySlash \/ KeyDelete \/ KeyUpdate
    \/ KeyOtherNormal
    \/ KeyEnter \/ KeyEsc \/ KeyChar \/ KeyBackspace \/ KeyOtherFilter
    \/ LoopError

Spec == Init /\ [][Next]_vars

----------------------------------------------------------------------------
(* The size column: the program started on a log of two records whose files
   have sizes around the unit boundaries, and the cursor moved over them *)

\* file sizes at and around the boundaries of the units, and a rounding tie
SizeSamples ==
    {0, 1, 1023, 1024, 1280, 1536, 1048575, 1048576, 1572864,
     1073741823, 1073741824, 1610612736, 2147483647}

SizeInit ==
    /\ logfile = [present |-> TRUE, bytes |-> LnB \o <<NL>> \o LnA \o <<NL>>]
    /\ fs \in [FilePaths -> {None} \cup {Some(n) : n \in SizeSamples}]
    /\ all_entries = load_log(logfile, fs)
    /\ filtered_entries = Identity(Len(all_entries))
    /\ selected = 0
    /\ input_mode = "Normal"
    /\ filter_input = <<>>
    /\ pc = "running"
    /\ disk_ops = 0
    /\ fault_age = 0
    /\ last = NoLast

SizeNext == KeyNext \/ KeyPrev \/ KeyOtherNormal

SpecSize == SizeInit /\ [][SizeNext]_vars

\* the size shown in the detail panel: curr.size_human() of the current entry
DetailSize ==
    LET cur == Current(all_entries, filtered_entries, selected)
    IN  IF cur.some THEN size_human(cur.val.size) ELSE <<>>

----------------------------------------------------------------------------
(* The claims *)

Range(f) == {f[i] : i \in DOMAIN f}

\* the lines of the log file with exactly three fields and this path
UnmarkedLines(bytes, path) ==
    {i \in DOMAIN lines(bytes) :
        LET parts == split(lines(bytes)[i], TAB)
        IN  Len(parts) = 3 /\ parts[3] = path}

\* C1: the cursor is a valid index into filtered_entries whenever the list
\* is non-empty, and 0 whenever it is empty, in every reachable state
C1_CursorValid ==
    IF Len(filtered_entries) > 0
    THEN selected < Len(filtered_entries)
    ELSE selected = 0

\* a filter edit shrank the view below the cursor, which was pulled back
C1_Witness ==
    /\ last.applied
    /\ last.from >= Len(filtered_entries)
    /\ last.from > 0

\* C2: in every state of the key-event loop filtered_entries is the index
\* list determined by all_entries and the current filter_input alone
C2_FilterViewConsistent ==
    pc = "running" => filtered_entries = FilteredOf(all_entries, filter_input)

\* C3: after apply_filter with a non-empty text, filtered_entries is strictly
\* increasing and holds index i exactly when the lower-cased text occurs in
\* the lower-cased file name, repo or full path of record i; removed and
\* size play no part
C3_FilterExact ==
    (last.applied /\ filter_input # <<>>) =>
        LET f == to_lowercase(filter_input)
            n == Len(all_entries)
            name(e) == IF FileName(e.path).some THEN FileName(e.path).val ELSE <<>>
            hit(e) == \/ contains(to_lowercase(name(e)), f)
                      \/ contains(to_lowercase(e.repo), f)
                      \/ contains(to_lowercase(e.path), f)
        IN  /\ \A i, j \in DOMAIN filtered_entries :
                   i < j => filtered_entries[i] < filtered_entries[j]
            /\ Range(filtered_entries) \subseteq 0..(n - 1)
            /\ \A i \in 0..(n - 1) :
                   (i \in Range(filtered_entries)) <=> hit(all_entries[i + 1])
            /\ \A i, j \in 0..(n - 1) :
                   (/\ all_entries[i + 1].repo = all_entries[j + 1].repo
                    /\ all_entries[i + 1].path = all_entries[j + 1].path)
                   => ((i \in Range(filtered_entries))
                         <=> (j \in Range(filtered_entries)))

\* a non-empty filter kept one record because of its repo only and dropped
\* another
C3_Witness ==
    /\ last.applied /\ filter_input # <<>>
    /\ Len(filtered_entries) < Len(all_entries)
    /\ \E i \in Range(filtered_entries) :
           ~contains(to_lowercase(all_entries[i + 1].path),
                     to_lowercase(filter_input))

\* C4: apply_filter with the empty text yields the identity sequence over
\* all records, whatever the view was before
C4_EmptyFilterResets ==
    (last.applied /\ filter_input = <<>>) =>
        filtered_entries = Identity(Len(all_entries))

\* the empty text was applied on a view that had been narrowed
C4_Witness ==
    /\ last.applied /\ filter_input = <<>>
    /\ last.lenBefore < Len(all_entries)
    /\ filtered_entries = Identity(Len(all_entries))

\* C5: on a view of length n >= 1, n presses of next (or of prev) return the
\* cursor to where it started; next from n-1 goes to 0, prev from 0 to n-1
C5_WrapAround ==
    LET n == Len(filtered_entries)
    IN  /\ (last.key \in {"j", "k"} /\ n >= 1 /\ last.count = n)
               => selected = last.start
        /\ (last.key = "j" /\ n >= 1 /\ last.from = n - 1) => selected = 0
        /\ (last.key = "k" /\ n >= 1 /\ last.from = 0) => selected = n - 1

\* a full cycle of next on a view of three entries, started off the top
C5_Witness ==
    /\ last.key = "j"
    /\ Len(filtered_entries) = 3
    /\ last.count = 3
    /\ last.start = 1
    /\ selected = 1

\* C6: marking the same path twice leaves the same log content as marking
\* it once, for every log content and every path
C6_MarkIdempotent ==
    logfile.present =>
        \A p \in {PathA, PathB, PathC} :
            MarkContent(MarkContent(logfile.bytes, p), p)
                = MarkContent(logfile.bytes, p)

\* C7: a successful mark_as_removed appends the marker to every line with
\* exactly three fields and the target path, and leaves every other line
\* unchanged, with the number and order of the lines preserved
C7_MarkFrame ==
    (last.key = "d" /\ last.marked /\ last.io = "ok" /\ last.before.present) =>
        LET old == lines(last.before.bytes)
            new == lines(logfile.bytes)
        IN  /\ Len(new) = Len(old)
            /\ \A i \in DOMAIN old :
                   new[i] = IF i \in UnmarkedLines(last.before.bytes, last.path)
                            THEN old[i] \o <<TAB>> \o REMOVED
                            ELSE old[i]

\* C8: a delete whose remove_file fails does not call mark_as_removed and
\* changes neither the log file nor the records, the view and the cursor
C8_FailedDeleteUntouched ==
    [][(last'.key = "d" /\ last'.path # <<>> /\ ~last'.removeOk) =>
          /\ ~last'.marked
          /\ logfile' = logfile
          /\ all_entries' = all_entries
          /\ filtered_entries' = filtered_entries
          /\ selected' = selected
          /\ filter_input' = filter_input]_vars

\* a delete was issued on a record whose file is missing while the log holds
\* an unmarked line for it
C8_Witness ==
    /\ last.key = "d" /\ last.path # <<>> /\ ~last.removeOk
    /\ last.path \in DOMAIN fs /\ ~fs[last.path].some
    /\ logfile.present
    /\ UnmarkedLines(logfile.bytes, last.path) # {}

\* C9: when a delete completes, it has not removed the file while the log
\* still holds an unmarked line for its path
C9_LogFsAgree ==
    (last.key = "d" /\ last.removeOk /\ pc = "running") =>
        (logfile.present => UnmarkedLines(logfile.bytes, last.path) = {})

\* C10: a crash or a failed write within mark_as_removed leaves every line
\* of another path in the log file
C10_CrashKeepsOtherLines ==
    (last.key = "d" /\ last.marked /\ last.io \in {"write_fail", "crash"}
        /\ last.before.present) =>
        \A i \in DOMAIN lines(last.before.bytes) :
            LET l == lines(last.before.bytes)[i]
                parts == split(l, TAB)
            IN  (Len(parts) < 3 \/ parts[3] # last.path)
                    => l \in Range(lines(logfile.bytes))

\* the state right after a load_log: the start, or a handler that reloaded
JustLoaded == pc = "running" /\ (last.key = "none" \/ last.reloaded)

\* what a log line says: its fields when it has at least three of them and
\* an RFC 3339 timestamp in the first
WellFormed(line) ==
    LET parts == split(line, TAB)
    IN  Len(parts) >= 3 /\ ParseRfc3339(parts[1]).some

\* the key of a record or of a well-formed line: instant, repo, path, marker
KeyOfEntry(e) == <<e.timestamp, e.repo, e.path, e.removed>>
KeyOfLine(line) ==
    LET parts == split(line, TAB)
    IN  <<ParseRfc3339(parts[1]).val, parts[2], parts[3],
          Len(parts) >= 4 /\ parts[4] = REMOVED>>

\* C11: load_log returns exactly one record for every line with at least
\* three fields and an RFC 3339 timestamp (marked or not) and none for any
\* other line; a missing log file gives the empty record set
C11_LoadTolerant ==
    JustLoaded =>
        LET ls == lines(ReadOrDefault(logfile))
            good == {i \in DOMAIN ls : WellFormed(ls[i])}
            key == [i \in good |-> KeyOfLine(ls[i])]
        IN  /\ ~logfile.present => all_entries = <<>>
            /\ Len(all_entries) = Cardinality(good)
            /\ \A i \in good :
                   Cardinality({j \in DOMAIN all_entries :
                                   KeyOfEntry(all_entries[j]) = key[i]})
                   = Cardinality({j \in good : key[j] = key[i]})

\* a log with a malformed line, a marked line and a plain line was loaded
C11_Witness ==
    /\ JustLoaded /\ logfile.present
    /\ Len(all_entries) = 2
    /\ Len(lines(logfile.bytes)) = 3
    /\ \E j \in DOMAIN all_entries : all_entries[j].removed
    /\ \E j \in DOMAIN all_entries : ~all_entries[j].removed

\* C12: the loaded records are sorted by timestamp descending, and records
\* of equal timestamps keep the order of their lines in the file
C12_LoadOrder ==
    JustLoaded =>
        LET ls == lines(ReadOrDefault(logfile))
            good == {i \in DOMAIN ls : WellFormed(ls[i])}
            key == [i \in good |-> KeyOfLine(ls[i])]
            \* the position in all_entries of the record of line i: after the
            \* lines of a later instant and the earlier lines of the same one
            pos(i) == 1 + Cardinality({j \in good :
                          \/ TsBefore(key[i][1], key[j][1])
                          \/ (key[j][1] = key[i][1] /\ j < i)})
        IN  /\ \A a \in 1..(Len(all_entries) - 1) :
                   ~TsBefore(all_entries[a].timestamp, all_entries[a + 1].timestamp)
            /\ \A i \in good :
                   /\ pos(i) \in DOMAIN all_entries
                   /\ KeyOfEntry(all_entries[pos(i)]) = key[i]

\* two records of the same instant and different paths were loaded
C12_Witness ==
    /\ JustLoaded /\ Len(all_entries) >= 2
    /\ \E a \in 1..(Len(all_entries) - 1) :
           /\ all_entries[a].timestamp = all_entries[a + 1].timestamp
           /\ all_entries[a].path # all_entries[a + 1].path

\* C13: a log line that carries the marker never loses it: a record loaded
\* with removed = true is not loaded with removed = false from the same
\* line after a later operation
C13_RemovedMonotonic ==
    (pc = "running" /\ last.key \in {"d", "u"} /\ last.before.present
        /\ logfile.present) =>
        LET old == lines(last.before.bytes)
            new == lines(logfile.bytes)
        IN  \A i \in DOMAIN old :
                (/\ WellFormed(old[i]) /\ KeyOfLine(old[i])[4]
                 /\ i \in DOMAIN new /\ WellFormed(new[i])
                 /\ KeyOfLine(new[i])[1] = KeyOfLine(old[i])[1]
                 /\ KeyOfLine(new[i])[2] = KeyOfLine(old[i])[2]
                 /\ KeyOfLine(new[i])[3] = KeyOfLine(old[i])[3])
                => KeyOfLine(new[i])[4]

\* C14 as stated: an update issued with a current record runs the command
\* with that record's repo and then reloads the records and rebuilds the
\* selection state, whatever the outcome of the command
C14_UpdateAlwaysReloads ==
    [][(last'.key = "u" /\ Current(all_entries, filtered_entries, selected).some) =>
          /\ last'.path = Current(all_entries, filtered_entries, selected).val.repo
          /\ last'.io \in EgetStatuses
          /\ last'.reloaded
          /\ all_entries' = load_log(logfile', fs')
          /\ filtered_entries' = Identity(Len(all_entries'))
          /\ selected' = 0
          /\ input_mode' = "Normal"
          /\ filter_input' = <<>>]_vars

\* C14 amended: an update issued with a current record either ends the
\* program or runs the command with that record's repo and then reloads the
\* records and rebuilds the selection state, whatever the outcome of the
\* command. The program ends before the command is run, and nothing changes,
\* when leaving the TUI fails or the line announcing the command cannot be
\* written; it ends after the command, without a reload, when the result or
\* the prompt cannot be written or entering the TUI again fails
C14_UpdateReloads ==
    [][(last'.key = "u" /\ Current(all_entries, filtered_entries, selected).some) =>
          LET repo == Current(all_entries, filtered_entries, selected).val.repo
              ran == /\ last'.path = repo
                     /\ last'.io \in EgetStatuses
              same == /\ all_entries' = all_entries
                      /\ filtered_entries' = filtered_entries
                      /\ selected' = selected
                      /\ input_mode' = input_mode
                      /\ filter_input' = filter_input
          IN  /\ last'.term \in {"ok", "leave_fail", "announce_panic",
                                  "report_panic", "enter_fail"}
              /\ pc' = "running" <=> last'.term = "ok"
              /\ last'.term \in {"leave_fail", "announce_panic"} =>
                     /\ last'.io = "none" /\ same
                     /\ logfile' = logfile /\ fs' = fs
              /\ last'.term \in {"report_panic", "enter_fail"} =>
                     /\ ran /\ same
              /\ last'.term = "ok" =>
                     /\ ran
                     /\ last'.reloaded
                     /\ all_entries' = load_log(logfile', fs')
                     /\ filtered_entries' = Identity(Len(all_entries'))
                     /\ selected' = 0
                     /\ input_mode' = "Normal"
                     /\ filter_input' = <<>>]_vars

\* the command could not be started for a record below the top, and the
\* state was rebuilt
C14_Witness ==
    /\ pc = "running"
    /\ last.key = "u" /\ last.term = "ok" /\ last.io = "spawn_fail"
    /\ last.reloaded
    /\ last.from > 0
    /\ selected = 0
    /\ all_entries = load_log(logfile, fs)

\* C15: Esc in Filter mode ends in Normal mode with the filter text empty
\* and the view the identity over all records
C15_CancelResets ==
    last.key = "esc" =>
        /\ input_mode = "Normal"
        /\ filter_input = <<>>
        /\ filtered_entries = Identity(Len(all_entries))

\* an edit with a narrowed view was cancelled
C15_Witness ==
    /\ last.key = "esc"
    /\ last.lenBefore < Len(all_entries)
    /\ input_mode = "Normal"
    /\ Len(filtered_entries) = Len(all_entries)

\* the record is matched by the text: its lower-cased file name, repo or
\* path contains the lower-cased text
HitBy(e, text) ==
    LET f == to_lowercase(text)
        name == IF FileName(e.path).some THEN FileName(e.path).val ELSE <<>>
    IN  \/ contains(to_lowercase(name), f)
        \/ contains(to_lowercase(e.repo), f)
        \/ contains(to_lowercase(e.path), f)

\* the indices of the records matched by the text, in increasing order
ViewOf(entries, text) ==
    LET S == {i \in 0..(Len(entries) - 1) :
                 text = <<>> \/ HitBy(entries[i + 1], text)}
    IN  CHOOSE q \in [1..Cardinality(S) -> S] :
            \A a, b \in 1..Cardinality(S) : a < b => q[a] < q[b]

\* C16: in Filter mode, right after a key that appends a character to the
\* filter text or removes its last one, the view is the result of filtering
\* all records by the new text
C16_LiveFiltering ==
    last.key \in {"char", "backspace"} =>
        /\ input_mode = "Filter"
        /\ filtered_entries = ViewOf(all_entries, filter_input)

\* a typed character narrowed the view at once
C16_Witness ==
    /\ last.key = "char"
    /\ input_mode = "Filter"
    /\ Len(filtered_entries) < last.lenBefore
    /\ Len(filtered_entries) > 0

\* C18: apply_filter leaves a cursor c that is below the new length n where
\* it is, moves it to n-1 when c >= n > 0 and to 0 when n = 0
C18_CursorClamp ==
    last.applied =>
        LET n == Len(filtered_entries)
            c == last.from
        IN  selected = IF c < n THEN c ELSE IF n > 0 THEN n - 1 ELSE 0

\* the view shrank around a cursor off the top that stayed in range
C18_Witness ==
    /\ last.applied
    /\ last.from > 0
    /\ selected = last.from
    /\ Len(filtered_entries) < last.lenBefore

\* C20: after a delete whose remove_file succeeded and after an update, the
\* selection state is rebuilt: filter text empty, cursor 0, Normal mode and
\* the view the identity over the freshly loaded records
C20_ReloadResets ==
    (pc = "running" /\ \/ (last.key = "d" /\ last.removeOk)
                       \/ (last.key = "u" /\ last.path # <<>>)) =>
        /\ all_entries = load_log(logfile, fs)
        /\ filter_input = <<>>
        /\ selected = 0
        /\ input_mode = "Normal"
        /\ filtered_entries = Identity(Len(all_entries))

\* a record below the top was deleted and the cursor is back at the top of
\* a list that still has records
C20_Witness ==
    /\ pc = "running" /\ last.key = "d" /\ last.removeOk
    /\ last.from > 0
    /\ selected = 0
    /\ Len(all_entries) >= 2

\* C17: size_human picks the unit by the byte count alone: bytes below 1024,
\* KB below 1024^2, MB below 1024^3, GB from there on, one decimal place
\* for the units other than bytes, and "N/A" exactly for no size
C17_SizeHuman ==
    LET cur == Current(all_entries, filtered_entries, selected)
        str == DetailSize
        n == Len(str)
        size == cur.val.size
        v == size.val
        unit == IF str[n - 1] = " " THEN "B" ELSE str[n - 1]
        \* digits, a point, one digit, a space and the two letters of the unit
        oneDecimal == /\ n >= 6
                      /\ str[n - 2] = " "
                      /\ IsDigit(str[n - 3])
                      /\ str[n - 4] = "."
                      /\ \A i \in 1..(n - 5) : IsDigit(str[i])
    IN  cur.some =>
            /\ (str = <<"N", "/", "A">>) <=> ~size.some
            /\ size.some =>
                   /\ str[n] = "B"
                   /\ unit = "B" <=> v < 1024
                   /\ unit = "K" <=> (1024 <= v /\ v < 1024 * 1024)
                   /\ unit = "M" <=> (1024 * 1024 <= v /\ v < 1024 * 1024 * 1024)
                   /\ unit = "G" <=> v >= 1024 * 1024 * 1024
                   /\ unit \in {"B", "K", "M", "G"}
                   /\ unit = "B" => str = DecimalOf(v) \o <<" ", "B">>
                   /\ unit # "B" => oneDecimal
                   /\ v = 0 => str = <<"0", " ", "B">>
                   /\ v = 1023 => str = <<"1", "0", "2", "3", " ", "B">>
                   /\ v = 1536 => str = <<"1", ".", "5", " ", "K", "B">>
                   /\ v = 1572864 => str = <<"1", ".", "5", " ", "M", "B">>

\* the last byte count below 1024^2 is shown in KB, rounded up to 1024.0
C17_Witness ==
    LET cur == Current(all_entries, filtered_entries, selected)
    IN  /\ cur.some /\ cur.val.size.some
        /\ cur.val.size.val = 1048575
        /\ DetailSize = <<"1", "0", "2", "4", ".", "0", " ", "K", "B">>

\* the well-formed lines of the log with this path whose marker field is
\* absent or the literal (TRUE), or present and something else (FALSE)
LinesOfPath(bytes, path, markable) ==
    {i \in DOMAIN lines(bytes) :
        LET parts == split(lines(bytes)[i], TAB)
        IN  /\ WellFormed(lines(bytes)[i])
            /\ parts[3] = path
            /\ markable <=> (Len(parts) = 3 \/ parts[4] = REMOVED)}

\* C19 as stated: after a successful mark_as_removed(p), load_log reports
\* removed = true for every record whose path is p
C19_MarkThenLoadAll ==
    (pc = "running" /\ last.key = "d" /\ last.marked /\ last.io = "ok"
        /\ last.before.present) =>
        \A j \in DOMAIN all_entries :
            all_entries[j].path = last.path => all_entries[j].removed

\* C19 amended: after a successful mark_as_removed(p), load_log reports
\* removed = true for the records of path p whose line had exactly three
\* fields or already the literal marker as fourth field, and removed = false
\* for those whose line has another fourth field
C19_MarkThenLoad ==
    (pc = "running" /\ last.key = "d" /\ last.marked /\ last.io = "ok"
        /\ last.before.present) =>
        /\ Cardinality({j \in DOMAIN all_entries :
               all_entries[j].path = last.path /\ all_entries[j].removed})
           = Cardinality(LinesOfPath(last.before.bytes, last.path, TRUE))
        /\ Cardinality({j \in DOMAIN all_entries :
               all_entries[j].path = last.path /\ ~all_entries[j].removed})
           = Cardinality(LinesOfPath(last.before.bytes, last.path, FALSE))

\* a path was marked that has a line of three fields and a line with
\* another fourth field
C19_Witness ==
    /\ pc = "running" /\ last.key = "d" /\ last.marked /\ last.io = "ok"
    /\ last.before.present
    /\ UnmarkedLines(last.before.bytes, last.path) # {}
    /\ \E j \in DOMAIN all_entries :
           all_entries[j].path = last.path /\ all_entries[j].removed
    /\ \E j \in DOMAIN all_entries :
           all_entries[j].path = last.path /\ ~all_entries[j].removed

====
